---- MODULE Spec2Model ----
(***************************************************************************)
(* grepr (src/src/lib.rs): the file resolver find_files, the line filter   *)
(* find_lines and the driver run, as state machines.                       *)
(*                                                                         *)
(* A stream is a sequence of bytes (one-character strings).  A resolver    *)
(* result is a record [ok, val]: Ok(val) or Err(val).                      *)
(***************************************************************************)
EXTENDS Naturals, Sequences, FiniteSets, TLC

VARIABLES
    files,          \* Config.files
    recursive,      \* Config.recursive
    count,          \* Config.count
    invert_match,   \* Config.invert_match
    pattern,        \* Config.pattern
    fs,             \* the filesystem: kind of the entry at each path
    pc,             \* position of run: "start", "loop", "opened", "emit", "done"
    file_paths,     \* run: the resolver's results
    many_files,     \* run: the prefix flag
    idx,            \* run: position of the for loop in file_paths
    stream,         \* the bytes the opened handle delivers
    consumed,       \* how many bytes of stream find_lines has read
    matches,        \* run: the result of find_lines for the current file
    mi,             \* run: position of the inner for loop in matches
    output,         \* everything written so far, stdout and stderr in real-time order
    log,            \* how each resolver result was handled, in order
    result,         \* what run returned: "none" while running, "Ok" or "Err"
    lines_out       \* SpecLines: the result of find_lines per invert flag

vars == <<files, recursive, count, invert_match, pattern, fs, pc, file_paths,
          many_files, idx, stream, consumed, matches, mi, output, log, result,
          lines_out>>

----------------------------------------------------------------------------
(* Bounds *)

MaxLen == 3        \* longest stream given to find_lines alone
MaxPaths == 2      \* most input paths in a run of the driver
MaxFiles == 3      \* most input paths given to find_files alone

----------------------------------------------------------------------------
(* Bytes, streams, patterns *)

NL == "\n"
CR == "\r"
\* a byte at which read_line fails: not valid UTF-8 (0xFF), or an I/O error there
BadByte == "#"

Bytes == {"o", "x", CR, NL, BadByte}

RECURSIVE SeqsUpTo(_, _)
SeqsUpTo(S, n) ==
    IF n = 0 THEN {<<>>}
    ELSE LET shorter == SeqsUpTo(S, n - 1)
         IN  shorter \cup {Append(s, b) : s \in {t \in shorter : Len(t) = n - 1}, b \in S}

\* patterns are literal regular expressions; the empty one matches every text
Patterns == {<<>>, <<"o">>, <<"x", "o">>}

\* Regex::is_match for a literal pattern: the text holds the pattern somewhere
IsMatch(pat, text) ==
    \E i \in 1..(Len(text) + 1) :
        /\ i + Len(pat) - 1 <= Len(text)
        /\ SubSeq(text, i, i + Len(pat) - 1) = pat

----------------------------------------------------------------------------
(* find_lines *)

\* BufRead::read_line: the bytes from pos up to and including the next "\n", or
\* up to the end of the stream.  The bytes are consumed either way; on a failure
\* nothing is appended to the buffer.
ReadLine(s, pos) ==
    LET nls  == {i \in pos..Len(s) : s[i] = NL}
        last == IF nls = {} THEN Len(s) ELSE CHOOSE i \in nls : \A j \in nls : i <= j
        text == SubSeq(s, pos, last)
    IN  IF \E i \in 1..Len(text) : text[i] = BadByte
        THEN [ok |-> FALSE, bytes |-> 0, text |-> <<>>, next |-> last + 1]
        ELSE [ok |-> TRUE, bytes |-> Len(text), text |-> text, next |-> last + 1]

\* mutant of BufferClear: the buffer is not cleared between lines
BufferKept(buffer) == buffer

\* buffer.clear()
BufferClear(buffer) == <<>>

\* mutant of Selected: the invert flag is ignored
SelectedNoInvert(pat, invert, buffer) == IsMatch(pat, buffer)

\* invert_match ^ pattern.is_match(&buffer)
Selected(pat, invert, buffer) == invert # IsMatch(pat, buffer)

\* the while loop of find_lines, from stream position pos with the given buffer
\* and result so far.  A failed read ends the loop like the end of the stream.
RECURSIVE FindLinesLoop(_, _, _, _, _, _)
FindLinesLoop(s, pat, invert, pos, buffer, res) ==
    LET r == ReadLine(s, pos)
    IN  IF ~r.ok
        THEN [err |-> FALSE, res |-> res, consumed |-> r.next - 1, failed |-> TRUE]
        ELSE IF r.bytes = 0
        THEN [err |-> FALSE, res |-> res, consumed |-> r.next - 1, failed |-> FALSE]
        ELSE LET buf  == buffer \o r.text
                 res2 == IF Selected(pat, invert, buf) THEN Append(res, buf) ELSE res
             IN  FindLinesLoop(s, pat, invert, r.next, BufferClear(buf), res2)

\* mutant of FindLinesLoop as called by find_lines: a failed read is returned as
\* an error (read_line(..)?), not swallowed
FindLinesPropagate(s, pat, invert) ==
    LET r == FindLinesLoop(s, pat, invert, 1, <<>>, <<>>)
    IN  [r EXCEPT !.err = r.failed]

\* mutant of find_lines: it returns as soon as a line is selected, leaving the
\* rest of the stream unread
RECURSIVE FindLinesUntilMatch(_, _, _, _)
FindLinesUntilMatch(s, pat, invert, pos) ==
    LET r == ReadLine(s, pos)
    IN  IF ~r.ok
        THEN [err |-> FALSE, res |-> <<>>, consumed |-> r.next - 1, failed |-> TRUE]
        ELSE IF r.bytes = 0
        THEN [err |-> FALSE, res |-> <<>>, consumed |-> r.next - 1, failed |-> FALSE]
        ELSE IF Selected(pat, invert, r.text)
        THEN [err |-> FALSE, res |-> <<r.text>>, consumed |-> r.next - 1, failed |-> FALSE]
        ELSE FindLinesUntilMatch(s, pat, invert, r.next)
FindLinesStreaming(s, pat, invert) == FindLinesUntilMatch(s, pat, invert, 1)

\* find_lines: err is the variant of the returned Result (always Ok), res the
\* lines; consumed and failed say what happened to the stream
FindLines(s, pat, invert) == FindLinesLoop(s, pat, invert, 1, <<>>, <<>>)

----------------------------------------------------------------------------
(* The filesystem and walkdir *)

\* the sentinel path: standard input
Stdin == "-"

\* the paths an entry can exist at, and the names a directory can hold, in the
\* order read_dir returns them
Nodes == {"f", "d", "d/g", "d/s", "d/s/h"}
Names(p) ==
    IF p = "d" THEN <<"g", "s">>
    ELSE IF p = "d/s" THEN <<"h">>
    ELSE <<>>

\* Path::join
Join(p, name) == p \o "/" \o name

\* "file": regular file; "dir": directory; "denied": directory that cannot be
\* listed; "other": neither file nor directory (symlink, fifo, device);
\* "missing": no entry
Kinds == {"file", "dir", "denied", "other", "missing"}

\* entries exist only inside directories
FSConfigs ==
    {k \in [Nodes -> Kinds] :
        \A p \in Nodes : k[p] # "dir" =>
            \A i \in 1..Len(Names(p)) : k[Join(p, Names(p)[i])] = "missing"}

NotFound == "No such file or directory (os error 2)"
Denied == "Permission denied (os error 13)"

WalkOk(p, ftype) == [ok |-> TRUE, path |-> p, ftype |-> ftype, err |-> ""]
WalkErr(p, e) == [ok |-> FALSE, path |-> p, ftype |-> "", err |-> e]

\* WalkDir::new(p) as the sequence of items its iterator yields: the entry
\* itself first, then the contents of a directory, depth first.  The root that
\* does not exist and the directory that cannot be listed yield an error item.
RECURSIVE Walk(_, _, _)
RECURSIVE WalkNames(_, _, _, _)
Walk(k, p, isRoot) ==
    IF k[p] = "missing" THEN (IF isRoot THEN <<WalkErr(p, NotFound)>> ELSE <<>>)
    ELSE IF k[p] = "denied" THEN <<WalkOk(p, "dir"), WalkErr(p, Denied)>>
    ELSE IF k[p] = "dir" THEN <<WalkOk(p, "dir")>> \o WalkNames(k, p, Names(p), 1)
    ELSE <<WalkOk(p, k[p])>>
WalkNames(k, p, names, i) ==
    IF i > Len(names) THEN <<>>
    ELSE Walk(k, Join(p, names[i]), FALSE) \o WalkNames(k, p, names, i + 1)

----------------------------------------------------------------------------
(* find_files *)

Ok(v) == [ok |-> TRUE, val |-> v]
Err(v) == [ok |-> FALSE, val |-> v]

\* format!("{}: {}", path, e.io_error().unwrap().to_string())
WalkErrorMessage(path, e) == path \o ": " \o e

\* format!("{} is a directory", path)
IsADirectory(path) == path \o " is a directory"

\* mutant of DirRejected: the directory itself is listed when recursing
DirRejectedNever(ftype, rec) == FALSE

\* dir.file_type().is_dir() && recursive == false
DirRejected(ftype, rec) == ftype = "dir" /\ rec = FALSE

\* mutant of IsFile: every entry that is not rejected is pushed
IsFileAny(ftype) == TRUE

\* dir.file_type().is_file()
IsFile(ftype) == ftype = "file"

\* the inner for loop of find_files over the items of the walk of path, from
\* item i, with the results so far
RECURSIVE WalkLoop(_, _, _, _, _)
WalkLoop(path, rec, items, i, res) ==
    IF i > Len(items) THEN res
    ELSE LET e == items[i]
         IN  IF ~e.ok
             THEN WalkLoop(path, rec, items, i + 1,
                           Append(res, Err(WalkErrorMessage(path, e.err))))
             ELSE IF DirRejected(e.ftype, rec)
             THEN Append(res, Err(IsADirectory(path)))            \* break
             ELSE IF IsFile(e.ftype)
             THEN WalkLoop(path, rec, items, i + 1, Append(res, Ok(e.path)))
             ELSE WalkLoop(path, rec, items, i + 1, res)

\* mutant of FindFilesLoop: the walk of a directory without recursion ends the
\* outer loop too
RECURSIVE FindFilesLoopBreak(_, _, _, _, _)
FindFilesLoopBreak(k, paths, rec, i, res) ==
    IF i > Len(paths) THEN res
    ELSE IF paths[i] = Stdin
    THEN FindFilesLoopBreak(k, paths, rec, i + 1, Append(res, Ok(paths[i])))
    ELSE LET res2 == WalkLoop(paths[i], rec, Walk(k, paths[i], TRUE), 1, res)
         IN  IF res2 # res /\ ~res2[Len(res2)].ok THEN res2
             ELSE FindFilesLoopBreak(k, paths, rec, i + 1, res2)

\* the outer for loop of find_files, from path i, with the results so far
RECURSIVE FindFilesLoop(_, _, _, _, _)
FindFilesLoop(k, paths, rec, i, res) ==
    IF i > Len(paths) THEN res
    ELSE IF paths[i] = Stdin
    THEN FindFilesLoop(k, paths, rec, i + 1, Append(res, Ok(paths[i])))      \* continue
    ELSE FindFilesLoop(k, paths, rec, i + 1,
                       WalkLoop(paths[i], rec, Walk(k, paths[i], TRUE), 1, res))

\* find_files on the filesystem k
FindFiles(k, paths, rec) == FindFilesLoop(k, paths, rec, 1, <<>>)

----------------------------------------------------------------------------
(* find_files alone: SpecFiles *)

\* the paths given on the command line
InputPaths == {Stdin, "f", "d", "d/s"}

NonEmptySeqs(S, n) == SeqsUpTo(S, n) \ {<<>>}

InitFiles ==
    /\ files \in NonEmptySeqs(InputPaths, MaxFiles)
    /\ recursive \in BOOLEAN
    /\ fs \in FSConfigs
    /\ pc = "files"
    /\ file_paths = <<>>
    /\ count = FALSE /\ invert_match = FALSE /\ pattern = <<>>
    /\ many_files = FALSE /\ idx = 0 /\ stream = <<>> /\ consumed = 0
    /\ matches = <<>> /\ mi = 0 /\ output = <<>> /\ log = <<>>
    /\ result = "none" /\ lines_out = [b \in BOOLEAN |-> <<>>]

\* let file_paths = find_files(&config.files, config.recursive)
CallFindFiles ==
    /\ pc = "files"
    /\ file_paths' = FindFiles(fs, files, recursive)
    /\ pc' = "resolved"
    /\ UNCHANGED <<files, recursive, count, invert_match, pattern, fs, many_files,
                   idx, stream, consumed, matches, mi, output, log, result, lines_out>>

NextFiles == CallFindFiles

SpecFiles == InitFiles /\ [][NextFiles]_vars

----------------------------------------------------------------------------
(* find_lines alone: SpecLines *)

InitLines ==
    /\ stream \in SeqsUpTo(Bytes, MaxLen)
    /\ pattern \in Patterns
    /\ lines_out = [b \in BOOLEAN |-> <<>>]
    /\ pc = "lines"
    /\ files = <<>> /\ recursive = FALSE /\ fs = [p \in Nodes |-> "missing"]
    /\ file_paths = <<>>
    /\ count = FALSE /\ invert_match = FALSE
    /\ many_files = FALSE /\ idx = 0 /\ consumed = 0
    /\ matches = <<>> /\ mi = 0 /\ output = <<>> /\ log = <<>>
    /\ result = "none"

\* find_lines(Cursor::new(&text), &re, invert), once per invert flag
CallFindLines ==
    /\ pc = "lines"
    /\ \E inv \in BOOLEAN :
        /\ lines_out[inv] = <<>>
        /\ lines_out' = [lines_out EXCEPT ![inv] = <<FindLines(stream, pattern, inv)>>]
    /\ UNCHANGED <<files, recursive, count, invert_match, pattern, fs, pc, file_paths,
                   many_files, idx, stream, consumed, matches, mi, output, log, result>>

NextLines == CallFindLines

SpecLines == InitLines /\ [][NextLines]_vars

----------------------------------------------------------------------------
(* What the claims speak of *)

\* where the lines of s end: at each terminator, and at the end of the stream
LineEnds(s) == {i \in 1..Len(s) : s[i] = NL \/ i = Len(s)}

\* the k-th smallest element of a set of numbers
Kth(S, k) == CHOOSE e \in S : Cardinality({x \in S : x <= e}) = k

\* the lines of s: each the maximal run up to and including the next
\* terminator, or up to the end of the stream
LinesOf(s) ==
    [k \in 1..Cardinality(LineEnds(s)) |->
        SubSeq(s, IF k = 1 THEN 1 ELSE Kth(LineEnds(s), k - 1) + 1, Kth(LineEnds(s), k))]

Readable(line) == \A i \in 1..Len(line) : line[i] # BadByte

\* the lines of s before the first one whose read fails
Delivered(s) ==
    LET ls  == LinesOf(s)
        bad == {k \in 1..Len(ls) : ~Readable(ls[k])}
    IN  IF bad = {} THEN ls ELSE SubSeq(ls, 1, Kth(bad, 1) - 1)

\* the lines among ls that the predicate (pattern matches line) XOR invert keeps
Kept(ls, pat, inv) == SelectSeq(ls, LAMBDA l : IsMatch(pat, l) # inv)

\* the elements of ls at the positions P, in order
Pick(ls, P) == [k \in 1..Cardinality(P) |-> ls[Kth(P, k)]]

Called(inv) == pc = "lines" /\ lines_out[inv] # <<>>
Returned(inv) == lines_out[inv][1]

\* C4 as stated: for every input stream, find_lines returns Ok with exactly
\* the ordered subsequence of all the stream's lines for which
\* (pattern matches line) XOR invert, each byte-identical.
C4_AllLines ==
    \A inv \in BOOLEAN : Called(inv) =>
        /\ ~Returned(inv).err
        /\ Returned(inv).res = Kept(LinesOf(stream), pattern, inv)

\* C4 amended: find_lines returns Ok with exactly the kept subsequence of the
\* lines read before the first failing read, each byte-identical; when every
\* read succeeds these are all the lines of the stream, a final unterminated
\* line included, and an empty stream yields an empty result.
C4_FindLinesFilters ==
    \A inv \in BOOLEAN : Called(inv) =>
        /\ ~Returned(inv).err
        /\ Returned(inv).res = Kept(Delivered(stream), pattern, inv)
        /\ Readable(stream) => Returned(inv).res = Kept(LinesOf(stream), pattern, inv)
        /\ stream = <<>> => Returned(inv).res = <<>>

\* C4 witness: a readable stream of two lines, "\n"-terminated then
\* unterminated, both returned unmodified
C4_Witness ==
    /\ Called(FALSE)
    /\ Readable(stream)
    /\ Len(stream) = 3 /\ stream[2] = NL /\ stream[3] # NL
    /\ Returned(FALSE).res = <<SubSeq(stream, 1, 2), SubSeq(stream, 3, 3)>>

\* C5 as stated: the results for invert=false and invert=true partition the
\* positions of all the stream's lines.
C5_PartitionAll ==
    (Called(FALSE) /\ Called(TRUE)) =>
        LET ls == LinesOf(stream)
        IN  /\ Len(Returned(FALSE).res) + Len(Returned(TRUE).res) = Len(ls)
            /\ \E P \in SUBSET (1..Len(ls)) :
                /\ Returned(FALSE).res = Pick(ls, P)
                /\ Returned(TRUE).res = Pick(ls, (1..Len(ls)) \ P)

\* C5 amended: the two results partition the positions of the lines read before
\* the first failing read, which are all the lines when every read succeeds.
C5_Partition ==
    (Called(FALSE) /\ Called(TRUE)) =>
        LET ls == Delivered(stream)
        IN  /\ Readable(stream) => ls = LinesOf(stream)
            /\ Len(Returned(FALSE).res) + Len(Returned(TRUE).res) = Len(ls)
            /\ \E P \in SUBSET (1..Len(ls)) :
                /\ Returned(FALSE).res = Pick(ls, P)
                /\ Returned(TRUE).res = Pick(ls, (1..Len(ls)) \ P)

\* C5 witness: both calls made on a readable stream of two lines, one line in
\* each result
C5_Witness ==
    /\ Called(FALSE) /\ Called(TRUE)
    /\ Readable(stream)
    /\ Len(LinesOf(stream)) = 2
    /\ Len(Returned(FALSE).res) = 1 /\ Len(Returned(TRUE).res) = 1

Resolved == pc = "resolved"

RECURSIVE Flatten(_)
Flatten(ss) == IF ss = <<>> THEN <<>> ELSE Head(ss) \o Flatten(Tail(ss))

\* what C7 says one input path yields without recursion
C7_Expected(p) ==
    IF p = Stdin THEN <<[ok |-> TRUE, val |-> Stdin]>>
    ELSE IF fs[p] = "file" THEN <<[ok |-> TRUE, val |-> p]>>
    ELSE IF fs[p] \in {"dir", "denied"} THEN <<[ok |-> FALSE, val |-> p \o " is a directory"]>>
    ELSE IF fs[p] = "missing" THEN <<[ok |-> FALSE, val |-> p \o ": " \o NotFound]>>
    ELSE <<>>

RECURSIVE Below(_)
Below(p) == {p} \cup UNION {Below(Join(p, Names(p)[i])) : i \in 1..Len(Names(p))}

Occurrences(seq, x) == Cardinality({i \in 1..Len(seq) : seq[i] = x})

Alone(p) == FindFiles(fs, <<p>>, recursive)

\* C9: the results are the concatenation, in input order, of what each path
\* yields when resolved alone; the sentinel yields Ok("-") whatever the
\* filesystem holds.
C9_Concatenation ==
    Resolved =>
        /\ file_paths = Flatten([i \in 1..Len(files) |-> Alone(files[i])])
        /\ Alone(Stdin) = <<[ok |-> TRUE, val |-> Stdin]>>

\* C9 witness: an input path that yields an error, followed by one that yields
\* a success
C9_Witness ==
    /\ Resolved
    /\ Len(files) >= 2
    /\ \E r \in 1..Len(Alone(files[1])) : ~Alone(files[1])[r].ok
    /\ \E r \in 1..Len(Alone(files[2])) : Alone(files[2])[r].ok
    /\ Len(file_paths) >= 2

----------------------------------------------------------------------------
(* run: Spec *)

\* the paths given on the command line of a run
RunPaths == {Stdin, "f", "d"}

\* the pattern of a run
RunPatterns == {<<"o">>}

\* what an opened file or standard input holds: nothing; three lines, the first
\* "\r\n"-terminated, the last unterminated; a line whose read fails between two
\* good ones
RunStreams ==
    {<<>>,
     <<"o", CR, NL, "x", NL, "o">>,
     <<"o", NL, BadByte, NL, "o", NL>>}

\* the filesystems of a run: those of FSConfigs with "f" a file or missing, "d" a
\* directory, missing or a special file, "d/g" and "d/s/h" files or missing, and
\* "d/s" a directory (listable or not) or missing
RunFS ==
    {k \in FSConfigs :
        /\ k["f"] \in {"file", "missing"}
        /\ k["d"] \in {"dir", "missing", "other"}
        /\ k["d/g"] \in {"file", "missing"}
        /\ k["d/s"] \in {"dir", "denied", "missing"}
        /\ k["d/s/h"] \in {"file", "missing"}}

\* why File::open fails on a resolved path
OpenErrors == {NotFound, Denied}

\* one write: to stderr a diagnostic line (msg), to stdout a "<path>:" prefix, a
\* matched line (text) or a count line (n); src is the resolver result being
\* handled
Diag(i, m) == [chan |-> "err", kind |-> "diag", msg |-> m, text |-> <<>>, n |-> 0, src |-> i]
Prefix(i, path) == [chan |-> "out", kind |-> "prefix", msg |-> path, text |-> <<>>, n |-> 0, src |-> i]
Line(i, t) == [chan |-> "out", kind |-> "line", msg |-> "", text |-> t, n |-> 0, src |-> i]
Count(i, c) == [chan |-> "out", kind |-> "count", msg |-> "", text |-> <<>>, n |-> c, src |-> i]

\* how result i was handled: "resolve_error", "open_error" or "filtered"; for a
\* filtered one, the stream its handle delivered and whether a read of it failed
Handled(i, how, s, failed) == [i |-> i, how |-> how, stream |-> s, failed |-> failed]

Init ==
    /\ files \in NonEmptySeqs(RunPaths, MaxPaths)
    /\ recursive \in BOOLEAN
    /\ count \in BOOLEAN
    /\ invert_match \in BOOLEAN
    /\ pattern \in RunPatterns
    /\ fs \in RunFS
    /\ pc = "start"
    /\ file_paths = <<>> /\ many_files = FALSE /\ idx = 0
    /\ stream = <<>> /\ consumed = 0 /\ matches = <<>> /\ mi = 0
    /\ output = <<>> /\ log = <<>> /\ result = "none"
    /\ lines_out = [b \in BOOLEAN |-> <<>>]

\* mutant of ManyFiles: only the successes are counted
ManyFilesSuccesses(paths) == Cardinality({i \in 1..Len(paths) : paths[i].ok}) > 1

\* file_paths.len() > 1
ManyFiles(paths) == Len(paths) > 1

\* let file_paths = find_files(..); let many_files = file_paths.len() > 1;
Resolve ==
    /\ pc = "start"
    /\ file_paths' = FindFiles(fs, files, recursive)
    /\ many_files' = ManyFiles(file_paths')
    /\ idx' = 1
    /\ pc' = "loop"
    /\ UNCHANGED <<files, recursive, count, invert_match, pattern, fs, stream,
                   consumed, matches, mi, output, log, result, lines_out>>

AtResult == pc = "loop" /\ idx <= Len(file_paths)

\* Err(e) => eprintln!("{}", e)
ReportError ==
    /\ AtResult
    /\ ~file_paths[idx].ok
    /\ output' = Append(output, Diag(idx, file_paths[idx].val))
    /\ log' = Append(log, Handled(idx, "resolve_error", <<>>, FALSE))
    /\ idx' = idx + 1
    /\ UNCHANGED <<files, recursive, count, invert_match, pattern, fs, pc, file_paths,
                   many_files, stream, consumed, matches, mi, result, lines_out>>

\* format!("{}: {}", path, e)
OpenErrorMessage(path, e) == path \o ": " \o e

\* Ok(path) => match open(&path) { Err(e) => eprintln!("{}: {}", path, e)
OpenFails ==
    /\ AtResult
    /\ file_paths[idx].ok
    /\ file_paths[idx].val # Stdin
    /\ \E e \in OpenErrors :
        output' = Append(output, Diag(idx, OpenErrorMessage(file_paths[idx].val, e)))
    /\ log' = Append(log, Handled(idx, "open_error", <<>>, FALSE))
    /\ idx' = idx + 1
    /\ UNCHANGED <<files, recursive, count, invert_match, pattern, fs, pc, file_paths,
                   many_files, stream, consumed, matches, mi, result, lines_out>>

\* Ok(path) => match open(&path) { Ok(file) => ..: the handle delivers some stream
Open ==
    /\ AtResult
    /\ file_paths[idx].ok
    /\ \E s \in RunStreams : stream' = s
    /\ consumed' = 0
    /\ pc' = "opened"
    /\ UNCHANGED <<files, recursive, count, invert_match, pattern, fs, file_paths,
                   many_files, idx, matches, mi, output, log, result, lines_out>>

\* let matches = find_lines(file, &config.pattern, config.invert_match)?;
Filter ==
    /\ pc = "opened"
    /\ LET r == FindLines(stream, pattern, invert_match)
       IN  /\ consumed' = r.consumed
           /\ log' = Append(log, Handled(idx, "filtered", stream, r.failed))
           /\ IF r.err
              THEN /\ result' = "Err"
                   /\ pc' = "done"
                   /\ UNCHANGED <<matches, mi>>
              ELSE /\ matches' = r.res
                   /\ mi' = 1
                   /\ pc' = "emit"
                   /\ UNCHANGED result
    /\ UNCHANGED <<files, recursive, count, invert_match, pattern, fs, file_paths,
                   many_files, idx, stream, output, lines_out>>

\* if many_files { print!("{}:", path); }
WithPrefix(i, path, write) ==
    IF many_files THEN <<Prefix(i, path), write>> ELSE <<write>>

\* mutant of CountOf: the lines read are counted, not the matches
CountOfRead(ms, s) == Len(LinesOf(s))

\* matches.len()
CountOf(ms, s) == Len(ms)

\* if config.count { ..; println!("{}", matches.len()); continue; }
WriteCount ==
    /\ pc = "emit"
    /\ count
    /\ output' = output \o WithPrefix(idx, file_paths[idx].val, Count(idx, CountOf(matches, stream)))
    /\ idx' = idx + 1
    /\ pc' = "loop"
    /\ UNCHANGED <<files, recursive, count, invert_match, pattern, fs, file_paths,
                   many_files, stream, consumed, matches, mi, log, result, lines_out>>

\* for match_ in &matches { ..; print!("{}", match_); }
WriteMatch ==
    /\ pc = "emit"
    /\ ~count
    /\ mi <= Len(matches)
    /\ output' = output \o WithPrefix(idx, file_paths[idx].val, Line(idx, matches[mi]))
    /\ mi' = mi + 1
    /\ UNCHANGED <<files, recursive, count, invert_match, pattern, fs, pc, file_paths,
                   many_files, idx, stream, consumed, matches, log, result, lines_out>>

\* the end of the for loop over matches: on to the next result
NextResult ==
    /\ pc = "emit"
    /\ ~count
    /\ mi > Len(matches)
    /\ idx' = idx + 1
    /\ pc' = "loop"
    /\ UNCHANGED <<files, recursive, count, invert_match, pattern, fs, file_paths,
                   many_files, stream, consumed, matches, mi, output, log, result,
                   lines_out>>

\* the end of the for loop over file_paths: Ok(())
Return ==
    /\ pc = "loop"
    /\ idx > Len(file_paths)
    /\ result' = "Ok"
    /\ pc' = "done"
    /\ UNCHANGED <<files, recursive, count, invert_match, pattern, fs, file_paths,
                   many_files, idx, stream, consumed, matches, mi, output, log,
                   lines_out>>

Next ==
    \/ Resolve
    \/ ReportError
    \/ OpenFails
    \/ Open
    \/ Filter
    \/ WriteCount
    \/ WriteMatch
    \/ NextResult
    \/ Return

Spec == Init /\ [][Next]_vars

----------------------------------------------------------------------------
(* The claims about run *)

Done == pc = "done"

Successes(paths) == Cardinality({i \in 1..Len(paths) : paths[i].ok})

\* write j is a matched line or a count
Emitted(j) == output[j].kind \in {"line", "count"}

\* write j comes right after the "<path>:" prefix of its own file
Prefixed(j) ==
    /\ j > 1
    /\ output[j - 1].kind = "prefix"
    /\ output[j - 1].src = output[j].src
    /\ output[j - 1].msg = file_paths[output[j].src].val

SomeError == \E j \in 1..Len(output) : output[j].kind = "diag"

\* C2: run reports failure whenever a per-path error occurred, and success only
\* when none did.
C2_FailureReported == Done => (result = "Err" <=> SomeError)

\* the diagnostics written for result i
DiagsOf(i) == {j \in 1..Len(output) : output[j].kind = "diag" /\ output[j].src = i}

\* each result handled exactly once, in order; the successes opened
InOrder ==
    /\ \A i \in 1..Len(log) :
        /\ log[i].i = i
        /\ (log[i].how = "resolve_error") <=> ~file_paths[i].ok
    /\ \A j \in 1..Len(output) : \A l \in 1..Len(output) :
        j < l => output[j].src <= output[l].src

\* the diagnostic of a resolver error is its message; that of an open error
\* names the path
DiagText(i) ==
    \A j \in DiagsOf(i) :
        IF log[i].how = "resolve_error" THEN output[j].msg = file_paths[i].val
        ELSE \E e \in OpenErrors : output[j].msg = file_paths[i].val \o ": " \o e

\* C3 as stated: every result is handled exactly once, in order, to the end of
\* the list, and each failure (resolver error, open failure, failed read) has
\* its diagnostic at its position.
C3_EveryFailureDiagnosed ==
    /\ InOrder
    /\ Done =>
        /\ Len(log) = Len(file_paths)
        /\ \A i \in 1..Len(log) :
            Cardinality(DiagsOf(i)) =
                IF log[i].how \in {"resolve_error", "open_error"} \/ log[i].failed
                THEN 1 ELSE 0

\* C3 amended: every result is handled exactly once, in order, to the end of
\* the list; each resolver error and each open failure has its diagnostic at
\* its position; a failed read has none: the lines selected before it are
\* written and the run goes on.
C3_NoErrorAborts ==
    /\ InOrder
    /\ Done =>
        /\ Len(log) = Len(file_paths)
        /\ idx = Len(file_paths) + 1
        /\ \A i \in 1..Len(log) :
            /\ Cardinality(DiagsOf(i)) =
                IF log[i].how \in {"resolve_error", "open_error"} THEN 1 ELSE 0
            /\ DiagText(i)

\* C3 witness: a failed read, then a resolver error, then a file that is
\* filtered and written
C3_Witness ==
    /\ Done
    /\ \E i \in 1..Len(log) : \E j \in 1..Len(log) : \E l \in 1..Len(log) :
        /\ i < j /\ j < l
        /\ log[i].failed
        /\ log[j].how = "resolve_error"
        /\ log[l].how = "filtered"
        /\ \E w \in 1..Len(output) : output[w].src = l /\ Emitted(w)

\* the writes of the given kind for result i
WritesOf(i, kind) == {j \in 1..Len(output) : output[j].kind = kind /\ output[j].src = i}

\* the number of lines non-count mode writes for the stream s
LinesSelected(s) == Len(Kept(Delivered(s), pattern, invert_match))

\* C6: in count mode exactly one count is written per opened file, equal to the
\* number of lines non-count mode writes for the same stream, and no line; in
\* non-count mode that many lines are written and no count.
C6_CountIsNumberOfLines ==
    Done =>
        \A i \in 1..Len(log) :
            IF log[i].how = "filtered"
            THEN IF count
                 THEN /\ Cardinality(WritesOf(i, "count")) = 1
                      /\ \A j \in WritesOf(i, "count") : output[j].n = LinesSelected(log[i].stream)
                      /\ WritesOf(i, "line") = {}
                 ELSE /\ Cardinality(WritesOf(i, "line")) = LinesSelected(log[i].stream)
                      /\ WritesOf(i, "count") = {}
            ELSE WritesOf(i, "count") = {} /\ WritesOf(i, "line") = {}

\* C6 witness: count mode, a file with three lines of which two are selected,
\* and the count 2 written
C6_Witness ==
    /\ Done /\ count
    /\ \E i \in 1..Len(log) :
        /\ log[i].how = "filtered"
        /\ Len(LinesOf(log[i].stream)) = 3
        /\ \E j \in WritesOf(i, "count") : output[j].n = 2

\* a line of the current file is about to be written
Writing == pc = "emit" /\ ~count /\ mi <= Len(matches)

\* where the mi-th selected line of the current stream ends
SelectedEnd ==
    LET ls == Delivered(stream)
        P  == {k \in 1..Len(ls) : IsMatch(pattern, ls[k]) # invert_match}
    IN  Kth(LineEnds(stream), Kth(P, mi))

\* where reading of s stops: at its end, or after the first line whose read fails
ReadEnd(s) ==
    IF Len(Delivered(s)) = Len(LinesOf(s)) THEN Len(s)
    ELSE Kth(LineEnds(s), Len(Delivered(s)) + 1)

\* C10 as stated: each selected line is written before later lines of the same
\* stream are read.
C10_Incremental == Writing => consumed <= SelectedEnd

\* C10 amended: nothing of a stream is written before the stream has been read
\* to its end (or to its first failing read); all its selected lines are
\* buffered, then written in order.
C10_Buffered ==
    /\ pc = "opened" => (consumed = 0 /\ \A j \in 1..Len(output) : output[j].src < idx)
    /\ pc = "emit" =>
        /\ consumed = ReadEnd(stream)
        /\ matches = Kept(Delivered(stream), pattern, invert_match)
        /\ ~count => /\ Cardinality(WritesOf(idx, "line")) = mi - 1
                     /\ \A j \in WritesOf(idx, "line") :
                          \E m \in 1..(mi - 1) : output[j].text = matches[m]

\* C10 witness: a stream of three lines read to its end, two lines selected,
\* none written yet
C10_Witness ==
    /\ Writing
    /\ mi = 1
    /\ Len(matches) = 2
    /\ Len(LinesOf(stream)) = 3
    /\ consumed = Len(stream)
    /\ WritesOf(idx, "line") = {}

====
